---- MODULE Spec2Model ----
(***************************************************************************)
(* ClientIsoCardWatcher (src/src/pages/ClientIsoCardWatcher.tsx): a React  *)
(* component that renders a scene through an IsoCard instance, talks to a  *)
(* server over WebSockets and mirrors the transforms the server pushes,    *)
(* coalesced per animation frame.                                          *)
(*                                                                         *)
(* Every handler of the component is an operator from component state to   *)
(* component state (a record with one field per variable), so that a       *)
(* handler calling another is function composition; an action runs one     *)
(* handler to its end and commits the record.                              *)
(***************************************************************************)
EXTENDS Integers, Sequences, FiniteSets, TLC

\* ------------------------------------------------------------- bounds
\* WebSockets that may be alive (connecting, open or closing) at once.
MaxSockets == 2
\* The newest lines of state.log the model remembers.
LogWindow == 1
\* Scene objects (live, or still referenced by the index or a pending id).
MaxObjs == 4
\* Calls of log made one after the other by CallLog.
MaxLogCalls == 405
\* IsoCard instances one Simple component constructs.
MaxIsoCards == 3
\* Calls of Simple's togglePlay suspended at an await at once.
MaxToggles == 2

\* ---------------------------------------------------- program constants
\* log keeps the newest 400 lines: .slice(-400)
LogKeep == 400

\* JavaScript's undefined (an absent field).
NONE == "undefined"

VARIABLES
    lifecycle,      \* "constructed" | "mounted" | "unmounted"
    iso,            \* this.iso: NONE or "iso"
    ready,          \* state.ready
    resizeListener, \* whether window holds the component's resize listener
    socket,         \* this.socket: 0 (null) or the id of a WebSocket
    sockets,        \* readyState of every WebSocket the component created
    wsStatus,       \* state.wsStatus
    serverUrl,      \* state.serverUrl
    jsonText,       \* state.jsonText: "valid" | "invalid" JSON
    sent,           \* the frame last transmitted, <<type, event that sent it>>,
                    \* or <<>> when none was
    log,            \* the newest LogWindow lines of state.log
    layerId,        \* state.layerId
    objects,        \* iso.objects: the entries of the scene, in creation order
    objectIndex,    \* this.objectIndex: id/name -> object
    pending,        \* this.pending: key -> update, in insertion order
    rafHandle,      \* this.rafHandle: 0 (null) or a frame-request handle
    rafQueue,       \* the browser's list of requested animation-frame callbacks
    batchPos,       \* history: per key, the position last received since the
                    \* last flush, oldest first
    batchRot,       \* history: the same for the orientation
    logCalls,       \* history: the calls of log CallLog has made
    loaded,         \* history: the objects the last SCENE_STATE handled to its
                    \* end added to the scene
    frame,          \* history: what the animation frame just run did
    simple          \* the Simple component (src/unnamed/part_001), a record
                    \* of its fields; see SimpleInit

\* The variables of ClientIsoCardWatcher.
watcher == <<lifecycle, iso, ready, resizeListener, socket, sockets, wsStatus,
             serverUrl, jsonText, sent, log, layerId, objects, objectIndex,
             pending, rafHandle, rafQueue, batchPos, batchRot, logCalls,
             loaded, frame>>

vars == <<watcher, simple>>

\* The component state as one record.
Me ==
    [lifecycle |-> lifecycle, iso |-> iso, ready |-> ready,
     resizeListener |-> resizeListener, socket |-> socket, sockets |-> sockets,
     wsStatus |-> wsStatus, serverUrl |-> serverUrl, jsonText |-> jsonText,
     sent |-> sent, log |-> log, layerId |-> layerId, objects |-> objects,
     objectIndex |-> objectIndex, pending |-> pending, rafHandle |-> rafHandle,
     rafQueue |-> rafQueue, batchPos |-> batchPos, batchRot |-> batchRot,
     logCalls |-> logCalls, loaded |-> loaded, frame |-> frame]

Commit(d) ==
    /\ lifecycle' = d.lifecycle
    /\ iso' = d.iso
    /\ ready' = d.ready
    /\ resizeListener' = d.resizeListener
    /\ socket' = d.socket
    /\ sockets' = d.sockets
    /\ wsStatus' = d.wsStatus
    /\ serverUrl' = d.serverUrl
    /\ jsonText' = d.jsonText
    /\ sent' = d.sent
    /\ log' = d.log
    /\ layerId' = d.layerId
    /\ objects' = d.objects
    /\ objectIndex' = d.objectIndex
    /\ pending' = d.pending
    /\ rafHandle' = d.rafHandle
    /\ rafQueue' = d.rafQueue
    /\ batchPos' = d.batchPos
    /\ batchRot' = d.batchRot
    /\ logCalls' = d.logCalls
    /\ loaded' = d.loaded
    /\ frame' = d.frame
    /\ simple' = simple

\* No animation frame has just run.
NoFrame == [flushes |-> 0, applied |-> <<>>, batchPos |-> <<>>, batchRot |-> <<>>]

\* ------------------------------------------------------ state and log
\* this.setState: React drops the update of a component that is unmounting
\* or unmounted.
setState(c, f, v) ==
    IF c.lifecycle = "mounted" THEN [c EXCEPT ![f] = v] ELSE c

LastN(s, n) ==
    IF Len(s) <= n THEN s ELSE SubSeq(s, Len(s) - n + 1, Len(s))

\* Mutant: the log is never cut.
LogAppendAll(l, m) == Append(l, m)

\* [...s.log, line].slice(-400)
LogAppend(l, m) == LastN(Append(l, m), LogKeep)

\* this.log(m); the model keeps the newest LogWindow lines of the result.
Log(c, m) == setState(c, "log", LastN(LogAppend(c.log, m), LogWindow))

\* --------------------------------------------------------- WebSockets
SocketIds == 1..MaxSockets

GoodUrl == "ws://localhost:5000"
BadUrl == "not a url"
\* new WebSocket(url) throws a SyntaxError on a URL it cannot parse.
ValidUrl(u) == u = GoodUrl

\* A closed WebSocket fires no further event: its id is free again.
FreeSockets(c) == {s \in SocketIds : c.sockets[s] = "closed"}
NewSocket(c) == CHOOSE s \in FreeSockets(c) : \A t \in FreeSockets(c) : s <= t

\* ws.close(): an open or connecting socket starts closing.
wsClose(st) == IF st \in {"connecting", "open"} THEN "closing" ELSE st

closeWebSocket(c) ==
    LET c1 == IF c.socket # 0
                THEN [c EXCEPT !.sockets[c.socket] = wsClose(@)]
                ELSE c
        c2 == [c1 EXCEPT !.socket = 0]
    IN  setState(c2, "wsStatus", "disconnected")

openWebSocket(c) ==
    LET c1 == Log(c, <<"Connecting to", c.serverUrl>>)
        c2 == setState(c1, "wsStatus", "connecting")
        c3 == closeWebSocket(c2)
    IN  IF ValidUrl(c.serverUrl)
        THEN [c3 EXCEPT !.sockets[NewSocket(c3)] = "connecting"]
        ELSE setState(Log(c3, <<"WebSocket connection failed", "SyntaxError">>),
                      "wsStatus", "disconnected")

\* Whether openWebSocket can run within the model's bound on live sockets.
CanOpen(c) == ~ValidUrl(c.serverUrl) \/ FreeSockets(c) # {}

\* Mutant: send transmits without looking at the socket or the status.
trySendUnguarded(c, type, ev, outcome) ==
    Log([c EXCEPT !.sent = <<type, ev>>], <<"Sent", type>>)

\* send(payload); outcome is "ok" or "throws" (JSON.stringify or socket.send
\* throws). socket.send(data) transmits on an open socket and silently
\* discards the data on a closing or closed one.
trySend(c, type, ev, outcome) ==
    IF c.socket = 0 \/ c.wsStatus # "connected"
    THEN Log(c, <<"Not connected. Can't send.", "">>)
    ELSE IF outcome = "throws"
    THEN Log(c, <<"Send failed", type>>)
    ELSE LET c1 == IF c.sockets[c.socket] = "open"
                    THEN [c EXCEPT !.sent = <<type, ev>>]
                    ELSE c
         IN  Log(c1, <<"Sent", type>>)

\* send(payload) with a payload and a socket that do not throw.
send(c, type, ev) == trySend(c, type, ev, "ok")

\* Mutant: the scene is requested as soon as the socket opens.
onopenGetScene(c, s) ==
    LET c1 == [c EXCEPT !.socket = s]
        c2 == setState(c1, "wsStatus", "connected")
    IN  send(Log(c2, <<"WebSocket connected", "">>), "GET_SCENE", "open")

onopen(c, s) ==
    LET c1 == [c EXCEPT !.socket = s]
        c2 == setState(c1, "wsStatus", "connected")
    IN  Log(c2, <<"WebSocket connected", "">>)

onclose(c) ==
    LET c1 == Log(c, <<"WebSocket closed", "">>)
        c2 == [c1 EXCEPT !.socket = 0]
    IN  setState(c2, "wsStatus", "disconnected")

onerror(c) ==
    setState(Log(c, <<"WebSocket error", "">>), "wsStatus", "disconnected")

ClientTypes == {"START", "GET_SCENE", "START_PHYSICS", "STOP_PHYSICS"}

handleSendScene(c, ev) ==
    IF c.jsonText = "valid"
    THEN send(c, "START", ev)
    ELSE Log(c, <<"Invalid JSON", "SyntaxError">>)

\* ------------------------------------------------------ scene objects
\* Object references; the library's numeric id of an object is modelled by
\* the same token.
RefName == <<"o1", "o2", "o3", "o4", "o5", "o6">>
Refs == {RefName[i] : i \in 1..MaxObjs}

\* typeof idOrName === "string": ids are numbers, names are strings.
IsString(key) == key \notin {RefName[i] : i \in 1..Len(RefName)}

\* idOrName.replace(/^server_layer/, "")
StripPrefix(n) == IF n = "server_layerball" THEN "ball" ELSE n

Range(f) == {f[x] : x \in DOMAIN f}

\* c.objects holds the entries of iso.objects (live) and the objects
\* removed from the scene that the index still references (not live).
Live(c) == SelectSeq(c.objects, LAMBDA e : e.live)
LiveRefs(c) == {c.objects[i].ref : i \in {j \in DOMAIN c.objects : c.objects[j].live}}

\* A reference no object, index entry or buffered id uses.
FreeRefs(c) ==
    Refs \ ({c.objects[i].ref : i \in DOMAIN c.objects} \cup Range(c.objectIndex)
            \cup {c.pending[i].key : i \in DOMAIN c.pending})

\* Garbage collection: a removed object nothing references is gone.
Collect(c) ==
    [c EXCEPT !.objects =
        SelectSeq(@, LAMBDA e : e.live \/ e.ref \in Range(c.objectIndex))]

\* iso.removeObject(id)
removeObject(c, ref) ==
    [c EXCEPT !.objects =
        [i \in DOMAIN c.objects |->
            IF c.objects[i].ref = ref THEN [c.objects[i] EXCEPT !.live = FALSE]
                                      ELSE c.objects[i]]]
NewRef(c) ==
    LET i == CHOOSE i \in 1..MaxObjs :
                /\ RefName[i] \in FreeRefs(c)
                /\ \A j \in 1..(i - 1) : RefName[j] \notin FreeRefs(c)
    IN  RefName[i]

\* The entry of the object ref.
Entry(c, ref) ==
    c.objects[CHOOSE i \in DOMAIN c.objects : c.objects[i].ref = ref]

\* The scene graph is flat: the parent of every object is the scene root.
SceneRoot == [type |-> "Scene", name |-> "", udLayer |-> NONE]
Parent(e) == SceneRoot

\* this.getThreeScene(): the scene of the IsoCard instance, if there is one.
getThreeScene(c) == IF c.iso = NONE THEN NONE ELSE "scene"

RECURSIVE IndexEntries(_, _)
\* The loops of rebuildObjectIndex over the entries es (a flat scene: the
\* traversal by name and the loop over iso.objects visit the same objects in
\* the same order, a later entry overwriting an earlier one).
IndexEntries(idx, es) ==
    IF es = <<>> THEN idx
    ELSE LET e == Head(es)
             ks == {e.ref} \cup (IF e.name # NONE /\ e.name # "" THEN {e.name} ELSE {})
         IN  IndexEntries([k \in DOMAIN idx \cup ks |->
                              IF k \in ks THEN e.ref ELSE idx[k]], Tail(es))

rebuildObjectIndex(c) ==
    LET c1 == [c EXCEPT !.objectIndex = <<>>]
    IN  IF getThreeScene(c1) = NONE THEN c1
        ELSE LET idx == IndexEntries(<<>>, Live(c1))
             IN  Log([c1 EXCEPT !.objectIndex = idx],
                     <<"Indexed", ToString(Cardinality(DOMAIN idx))>>)

\* scene.getObjectByName(n): the first object of that name, or NONE.
getObjectByName(c, n) ==
    LET hits == {i \in DOMAIN c.objects : c.objects[i].live /\ c.objects[i].name = n}
    IN  IF hits = {} THEN NONE
        ELSE c.objects[CHOOSE i \in hits : \A j \in hits : i <= j].ref

IndexGet(c, key) ==
    IF key \in DOMAIN c.objectIndex THEN c.objectIndex[key] ELSE NONE

IndexSet(c, key, ref) ==
    [c EXCEPT !.objectIndex =
        [k \in DOMAIN c.objectIndex \cup {key} |->
            IF k = key THEN ref ELSE c.objectIndex[k]]]

\* resolveObject(idOrName): <<the component afterwards, the object or NONE>>.
resolveObject(c, key) ==
    IF IndexGet(c, key) # NONE THEN <<c, IndexGet(c, key)>>
    ELSE IF getThreeScene(c) = NONE THEN <<c, NONE>>
    ELSE LET n1 == IF IsString(key) THEN getObjectByName(c, key) ELSE NONE
             n2 == IF IsString(key) THEN getObjectByName(c, StripPrefix(key))
                   ELSE NONE
         IN  IF n1 # NONE THEN <<IndexSet(c, key, n1), n1>>
             ELSE IF n2 # NONE THEN <<IndexSet(c, key, n2), n2>>
             ELSE LET c1 == rebuildObjectIndex(c)
                  IN  <<c1, IndexGet(c1, key)>>

\* ------------------------------------------------ transform application
\* Orientations are <<kind, value>>; an Euler triple in degrees is
\* converted to radians.
DegToRad(d) == IF d = "deg90" THEN "rad_half_pi" ELSE "rad_pi"
\* rot.length === 4 / === 3
RotLen(r) == IF r \in {"q1", "q2"} THEN 4 ELSE 3

\* The position and the orientation applyOneUpdateTo gives an object.
NewPosition(old, u) ==
    IF u.position # NONE THEN u.position
    ELSE IF u.pos # NONE THEN u.pos
    ELSE old

NewQuaternion(old, u) ==
    IF u.rotation # NONE THEN <<"quat", u.rotation>>
    ELSE IF u.rot # NONE /\ RotLen(u.rot) = 4 THEN <<"quat", u.rot>>
    ELSE IF u.eulerDeg # NONE THEN <<"eulerXYZ", DegToRad(u.eulerDeg)>>
    ELSE IF u.rot # NONE /\ RotLen(u.rot) = 3 THEN <<"eulerXYZ", u.rot>>
    ELSE old

\* The object applyOneUpdateTo writes to: the parent of the target when that
\* is a Group of the same name, else the target.
TransformTarget(e) ==
    IF Parent(e).type = "Group" /\ Parent(e).name = e.name
    THEN Parent(e) ELSE e

applyOneUpdateTo(c, target, u) ==
    LET obj == TransformTarget(Entry(c, target))
    IN  [c EXCEPT !.objects =
            [i \in DOMAIN c.objects |->
                IF c.objects[i].ref = obj.ref
                THEN [c.objects[i] EXCEPT
                        !.position = NewPosition(@, u),
                        !.quaternion = NewQuaternion(@, u)]
                ELSE c.objects[i]]]

\* -------------------------------------- updates: collect, flush per frame
\* a ?? b
Coalesce(a, b) == IF a # NONE THEN a ELSE b

Blank ==
    [nil |-> FALSE, id |-> NONE, name |-> NONE, position |-> NONE,
     pos |-> NONE, rotation |-> NONE, rot |-> NONE, eulerDeg |-> NONE,
     layerId |-> NONE]

RECURSIVE CollectArray(_, _)
\* The loop over an array of updates: null items and items with neither id
\* nor name are skipped.
CollectArray(items, defaultLayerId) ==
    IF items = <<>> THEN <<>>
    ELSE LET it == Head(items).u
             rest == CollectArray(Tail(items), defaultLayerId)
         IN  IF it.nil \/ Coalesce(it.id, it.name) = NONE THEN rest
             ELSE <<[it EXCEPT !.layerId = Coalesce(@, defaultLayerId)]>> \o rest

RECURSIVE CollectRecord(_, _)
\* The loop over the keys of a record of updates.
CollectRecord(items, defaultLayerId) ==
    IF items = <<>> THEN <<>>
    ELSE LET key == Head(items).key
             o == IF Head(items).u.nil THEN Blank ELSE Head(items).u
         IN  <<[o EXCEPT !.name = Coalesce(@, key),
                         !.layerId = Coalesce(@, defaultLayerId)]>>
             \o CollectRecord(Tail(items), defaultLayerId)

PendingKeys(p) == {p[i].key : i \in DOMAIN p}
PendingGet(p, key) == p[CHOOSE i \in DOMAIN p : p[i].key = key].u

\* Map.set: a new key goes last, an existing key keeps its place.
PendingSet(p, key, u) ==
    IF key \in PendingKeys(p)
    THEN [i \in DOMAIN p |-> IF p[i].key = key THEN [key |-> key, u |-> u] ELSE p[i]]
    ELSE Append(p, [key |-> key, u |-> u])

\* { ...prev, ...u }: a field u carries replaces prev's; layerId is always
\* carried (enqueuePhysics sets it, if only to undefined).
MergeUpdate(prev, u) ==
    [nil |-> FALSE,
     id |-> Coalesce(u.id, prev.id),
     name |-> Coalesce(u.name, prev.name),
     position |-> Coalesce(u.position, prev.position),
     pos |-> Coalesce(u.pos, prev.pos),
     rotation |-> Coalesce(u.rotation, prev.rotation),
     rot |-> Coalesce(u.rot, prev.rot),
     eulerDeg |-> Coalesce(u.eulerDeg, prev.eulerDeg),
     layerId |-> u.layerId]

\* History: the value last received under key goes last; an update that
\* carries none leaves the history as it is.
Latest(h, key, val, none) ==
    IF val = none THEN h
    ELSE Append(SelectSeq(h, LAMBDA e : e.key # key), [key |-> key, val |-> val])

\* The position, and the orientation, an update carries.
NoQuaternion == <<"none", "">>
GivenPosition(u) == NewPosition(NONE, u)
GivenQuaternion(u) == NewQuaternion(NoQuaternion, u)

RECURSIVE BufferAll(_, _)
\* The loop of enqueuePhysics over the collected updates.
BufferAll(c, arr) ==
    IF arr = <<>> THEN c
    ELSE LET u == Head(arr)
             key == Coalesce(u.id, u.name)
             prev == IF key \in PendingKeys(c.pending)
                     THEN PendingGet(c.pending, key)
                     ELSE [Blank EXCEPT !.id = u.id, !.name = u.name]
         IN  BufferAll([c EXCEPT
                          !.pending = PendingSet(@, key, MergeUpdate(prev, u)),
                          !.batchPos = Latest(@, key, GivenPosition(u), NONE),
                          !.batchRot = Latest(@, key, GivenQuaternion(u), NoQuaternion)],
                       Tail(arr))

\* requestAnimationFrame: a handle no outstanding request and no handle the
\* component still holds uses.
NewHandle(c) ==
    CHOOSE h \in 1..(Cardinality(c.rafQueue) + 2) :
        /\ h \notin c.rafQueue \cup {c.rafHandle}
        /\ \A g \in 1..(h - 1) : g \in c.rafQueue \cup {c.rafHandle}

\* Mutant: a frame is requested whether or not one is outstanding.
requestFlushAlways(c) ==
    LET h == NewHandle(c)
    IN  [c EXCEPT !.rafHandle = h, !.rafQueue = @ \cup {h}]

requestFlush(c) ==
    IF c.rafHandle = 0
    THEN LET h == NewHandle(c)
         IN  [c EXCEPT !.rafHandle = h, !.rafQueue = @ \cup {h}]
    ELSE c

\* objs: [kind |-> "array" | "record" | "other", items |-> a sequence of
\* [key |-> the key of a record's entry (NONE in an array), u |-> the update]]
enqueuePhysics(c, objs, defaultLayerId) ==
    IF objs.kind = "other" THEN c
    ELSE LET arr == IF objs.kind = "array"
                    THEN CollectArray(objs.items, defaultLayerId)
                    ELSE CollectRecord(objs.items, defaultLayerId)
         IN  requestFlush(BufferAll(c, arr))

\* The layer of an object, as the guard of flushPending reads it.
Truthy(s) == s # NONE /\ s # ""
ObjLayer(e) ==
    IF Truthy(e.udLayer) THEN e.udLayer
    ELSE IF Truthy(Parent(e).udLayer) THEN Parent(e).udLayer
    ELSE IF Truthy(e.layer) THEN e.layer
    ELSE "main"

\* Mutant: the layer guard is missing.
LayerMismatchOff(mustLayer, objLayer) == FALSE

\* The guard of flushPending: whether the update is skipped.
LayerMismatch(mustLayer, objLayer) ==
    Truthy(mustLayer) /\ Truthy(objLayer) /\ objLayer # mustLayer

RECURSIVE FlushLoop(_, _, _)
\* The loop of flushPending over the buffered updates p;
\* <<the component afterwards, the applications made>>.
FlushLoop(c, p, done) ==
    IF p = <<>> THEN <<c, done>>
    ELSE LET r == resolveObject(c, Head(p).key)
             c1 == r[1]
             obj == r[2]
             u == Head(p).u
             mustLayer == Coalesce(u.layerId, c.layerId)
         IN  IF obj = NONE
             THEN FlushLoop(c1, Tail(p), done)
             ELSE IF LayerMismatch(mustLayer, ObjLayer(Entry(c1, obj)))
             THEN FlushLoop(c1, Tail(p), done)
             ELSE FlushLoop(applyOneUpdateTo(c1, obj, u), Tail(p),
                            Append(done, [key |-> Head(p).key, obj |-> obj, u |-> u]))

\* Mutant: only the updates applied are removed from the buffer.
flushPendingKeepSkipped(c) ==
    IF c.iso = NONE \/ c.pending = <<>> THEN c
    ELSE LET r == FlushLoop(c, c.pending, <<>>)
             done == {r[2][i].key : i \in DOMAIN r[2]}
         IN  [r[1] EXCEPT !.pending = SelectSeq(c.pending, LAMBDA e : e.key \notin done),
                          !.frame.applied = r[2],
                          !.frame.batchPos = c.batchPos,
                          !.frame.batchRot = c.batchRot,
                          !.batchPos = <<>>,
                          !.batchRot = <<>>]

\* Mutant: the buffer is not cleared after the loop.
flushPendingKeep(c) ==
    IF c.iso = NONE \/ c.pending = <<>> THEN c
    ELSE LET r == FlushLoop(c, c.pending, <<>>)
         IN  [r[1] EXCEPT !.frame.applied = r[2]]

flushPending(c) ==
    IF c.iso = NONE \/ c.pending = <<>> THEN c
    ELSE LET r == FlushLoop(c, c.pending, <<>>)
             applied == Len(r[2])
             c1 == [r[1] EXCEPT !.pending = <<>>,
                                !.frame.applied = r[2],
                                !.frame.batchPos = c.batchPos,
                                !.frame.batchRot = c.batchRot,
                                !.batchPos = <<>>,
                                !.batchRot = <<>>]
         IN  IF applied > 0
             THEN Log(c1, <<"Applied", ToString(applied)>>)
             ELSE c1

\* The callback enqueuePhysics hands to requestAnimationFrame.
rafCallback(c) ==
    LET c1 == flushPending([c EXCEPT !.rafHandle = 0])
    IN  [c1 EXCEPT !.frame.flushes = @ + 1]

RECURSIVE RunCallbacks(_, _)
RunCallbacks(c, n) ==
    IF n = 0 THEN c ELSE RunCallbacks(rafCallback(c), n - 1)

\* ----------------------------------------------------- scene ingestion
\* An object of a scene description: its name (or NONE), whether it
\* carries a "physics" key, and whether a value nested in it carries one.
Config(name, physics) == [name |-> name, physics |-> physics, inner |-> FALSE]
ConfigDeep(name) == [Config(name, FALSE) EXCEPT !.inner = TRUE]

\* A scene as a message carries it: an array of objects, or an object
\* (self) that may hold a scene array.
SceneArray(items) ==
    [isArray |-> TRUE, items |-> items, hasScene |-> FALSE, scene |-> <<>>,
     self |-> Config(NONE, FALSE)]
SceneObject(self, hasScene, scene) ==
    [isArray |-> FALSE, items |-> <<>>, hasScene |-> hasScene, scene |-> scene,
     self |-> self]

StripConfig(o) == [o EXCEPT !.physics = FALSE, !.inner = FALSE]
StripAll(s) == [i \in DOMAIN s |-> StripConfig(s[i])]

\* Mutant: only the "physics" keys of the objects themselves are removed.
stripPhysicsShallow(sl) ==
    [sl EXCEPT !.items = [i \in DOMAIN @ |-> [@[i] EXCEPT !.physics = FALSE]],
               !.scene = [i \in DOMAIN @ |-> [@[i] EXCEPT !.physics = FALSE]],
               !.self = [@ EXCEPT !.physics = FALSE]]

\* JSON.parse(JSON.stringify(obj, (k, v) => (k === "physics" ? undefined : v)))
stripPhysicsDeep(sl) ==
    [sl EXCEPT !.items = StripAll(@), !.scene = StripAll(@), !.self = StripConfig(@)]

ensureSceneArray(sl) ==
    IF sl.isArray THEN sl.items
    ELSE IF sl.hasScene THEN sl.scene
    ELSE <<sl.self>>

RECURSIVE RemoveAll(_, _)
RemoveAll(c, refs) ==
    IF refs = <<>> THEN c ELSE RemoveAll(removeObject(c, Head(refs)), Tail(refs))

clearLayer(c, layer) ==
    LET toRemove == SelectSeq(Live(c), LAMBDA e : e.layer = layer)
        c1 == RemoveAll(c, [i \in DOMAIN toRemove |-> toRemove[i].ref])
    IN  IF Len(toRemove) > 0
        THEN Log(c1, <<"Cleared", ToString(Len(toRemove))>>)
        ELSE c1

RECURSIVE AddObjects(_, _)
\* iso.addObjectsToLayer: one entry per object of the payload.
AddObjects(c, payload) ==
    IF payload = <<>> THEN c
    ELSE LET e == [ref |-> NewRef(c), name |-> Head(payload).name,
                   physics |-> Head(payload).physics,
                   inner |-> Head(payload).inner,
                   layer |-> Head(payload).layer, udLayer |-> NONE,
                   position |-> "origin", quaternion |-> <<"quat", "identity">>,
                   live |-> TRUE]
         IN  AddObjects([c EXCEPT !.objects = Append(@, e)], Tail(payload))

\* e.threeObj.userData.layer = e?.config?.layer || layerId, for every entry.
TagLayers(c, layer) ==
    [c EXCEPT !.objects =
        [i \in DOMAIN c.objects |->
            LET e == c.objects[i]
            IN  IF e.live
                THEN [e EXCEPT !.udLayer = IF Truthy(e.layer) THEN e.layer ELSE layer]
                ELSE e]]

\* added: the objects of the payload iso.addObjectsToLayer adds before it
\* throws; all of them when it does not throw.
handleSceneState(c, sceneData, added) ==
    IF c.iso = NONE THEN Log(c, <<"IsoCard not ready", "">>)
    ELSE LET cleaned == stripPhysicsDeep(sceneData)
             layer == c.layerId
             c1 == clearLayer(c, layer)
             arr == ensureSceneArray(cleaned)
             payload == [i \in DOMAIN arr |->
                            [name |-> arr[i].name, physics |-> arr[i].physics,
                             inner |-> arr[i].inner, layer |-> layer]]
             c2 == AddObjects(c1, SubSeq(payload, 1, added))
         IN  IF added < Len(payload)
             THEN Log(c2, <<"Scene load failed", "">>)
             ELSE Log(rebuildObjectIndex(TagLayers(
                          [c2 EXCEPT !.loaded = LiveRefs(c2) \ LiveRefs(c1)], layer)),
                      <<"Scene loaded", ToString(Len(payload))>>)

\* ----------------------------------------------------- message handling
\* A server message: text is "empty" (nothing but white space), "invalid"
\* (not JSON), "null" (the JSON literal null) or "json" (a JSON object with
\* the fields below; hasSceneField says whether msg.scene is there).
Msg(type) ==
    [text |-> "json", type |-> type, name |-> NONE,
     hasSceneField |-> FALSE, scene |-> SceneArray(<<>>),
     layerId |-> NONE, layer |-> NONE,
     objects |-> [kind |-> "absent", items |-> <<>>],
     message |-> NONE]

\* msg.scene ?? msg
SceneData(msg) ==
    IF msg.hasSceneField THEN msg.scene
    ELSE SceneObject(Config(msg.name, FALSE), FALSE, <<>>)

\* msg.objects ?? msg.payload ?? msg.data ?? msg: the message itself is a
\* record whose keys are its fields.
ObjectsOf(msg) ==
    IF msg.objects.kind # "absent" THEN msg.objects
    ELSE [kind |-> "record",
          items |-> <<[key |-> "type", u |-> [Blank EXCEPT !.nil = TRUE]]>>
                    \o (IF msg.layerId # NONE
                        THEN <<[key |-> "layerId", u |-> [Blank EXCEPT !.nil = TRUE]]>>
                        ELSE <<>>)]

PhysicsTypes == {"PHYSICS_UPDATE", "PHYSICS_TICK", "TRANSFORMS"}

\* Mutant: the message is logged before its type is looked at.
onMessageLogsUntyped(c, msg, added) ==
    IF msg.text = "empty" THEN c
    ELSE IF msg.text \in {"invalid", "null"}
    THEN Log(c, <<"Message parse failed", msg.text>>)
    ELSE LET c1 == Log(c, <<"Received", msg.type>>)
         IN  IF msg.type = "SCENE_STATE"
             THEN handleSceneState(c1, SceneData(msg), added)
             ELSE IF msg.type \in PhysicsTypes
             THEN enqueuePhysics(c1, ObjectsOf(msg),
                                 Coalesce(msg.layerId, msg.layer))
             ELSE c1

\* Mutant: a failure to parse is not caught.
onMessageNoCatch(c, msg, added) ==
    IF msg.text \in {"empty", "invalid", "null"} THEN c
    ELSE IF ~Truthy(msg.type) THEN c
    ELSE LET c1 == Log(c, <<"Received", msg.type>>)
         IN  IF msg.type = "SCENE_STATE"
             THEN handleSceneState(c1, SceneData(msg), added)
             ELSE IF msg.type \in PhysicsTypes
             THEN enqueuePhysics(c1, ObjectsOf(msg),
                                 Coalesce(msg.layerId, msg.layer))
             ELSE IF msg.type = "ERROR"
             THEN Log(c1, <<"Server error", Coalesce(msg.message, "(no message)")>>)
             ELSE c1

onMessage(c, msg, added) ==
    IF msg.text = "empty" THEN c
    ELSE IF msg.text \in {"invalid", "null"}
    THEN Log(c, <<"Message parse failed", msg.text>>)
    ELSE IF ~Truthy(msg.type) THEN c
    ELSE LET c1 == Log(c, <<"Received", msg.type>>)
         IN  IF msg.type = "SCENE_STATE"
             THEN handleSceneState(c1, SceneData(msg), added)
             ELSE IF msg.type \in PhysicsTypes
             THEN enqueuePhysics(c1, ObjectsOf(msg),
                                 Coalesce(msg.layerId, msg.layer))
             ELSE IF msg.type = "ERROR"
             THEN Log(c1, <<"Server error", Coalesce(msg.message, "(no message)")>>)
             ELSE c1

\* The outcomes of iso.addObjectsToLayer the message can meet, and whether
\* the model's bound on objects admits them.
LoadSize(msg) == Len(ensureSceneArray(SceneData(msg)))
LoadOutcomes(c, msg) ==
    IF msg.text = "json" /\ msg.type = "SCENE_STATE" /\ c.iso # NONE
    THEN {k \in 0..LoadSize(msg) : Cardinality(FreeRefs(c)) >= k}
    ELSE {0}

\* ------------------------------------------- IsoCard bootstrap/teardown
\* outcome: "ok", "ctorThrows" (new IsoCard throws) or "startThrows"
\* (startAnimate throws). containerRef.current is set whenever the
\* component is mounted, render() always rendering the container.
createIsoCard(c, outcome) ==
    LET c1 == Log(c, <<"Creating IsoCard", "">>)
    IN  IF outcome = "ctorThrows"
        THEN Log(c1, <<"IsoCard init error", "ctor">>)
        ELSE LET c2 == [c1 EXCEPT !.iso = "iso"]
             IN  IF outcome = "startThrows"
                 THEN Log(c2, <<"IsoCard init error", "startAnimate">>)
                 ELSE setState([c2 EXCEPT !.resizeListener = TRUE],
                               "ready", TRUE)

\* outcome: "ok" or "throws" (a call before this.iso = null throws).
destroyIsoCard(c, outcome) ==
    IF c.iso = NONE THEN c
    ELSE IF outcome = "throws"
         THEN Log(c, <<"IsoCard destroy failed", "">>)
         ELSE Log([c EXCEPT !.objects = [i \in DOMAIN c.objects |->
                                           [c.objects[i] EXCEPT !.live = FALSE]],
                            !.iso = NONE,
                            !.objectIndex = <<>>],
                  <<"IsoCard destroyed", "">>)

\* The resize listener createIsoCard adds: this.iso!.onResize?.() and
\* this.iso!.renderScene?.(), calls into the IsoCard that change no field of
\* the component (and a TypeError when this.iso is null).
onResize(c) == c

componentDidMount(c, outcome) ==
    openWebSocket(createIsoCard([c EXCEPT !.lifecycle = "mounted"], outcome))

componentWillUnmount(c, outcome) ==
    LET c0 == [c EXCEPT !.lifecycle = "unmounted"]
        c1 == [c0 EXCEPT !.resizeListener = FALSE]
        c2 == closeWebSocket(c1)
        c3 == destroyIsoCard(c2, outcome)
    IN  IF c3.rafHandle # 0
        THEN [c3 EXCEPT !.rafQueue = @ \ {c3.rafHandle}]   \* cancelAnimationFrame
        ELSE c3

\* ====================================================== Simple component
\* src/unnamed/part_001: a React component that renders the scene of its
\* text box through an IsoCard instance and runs the client-side physics.
\* Its handlers are operators from the record of its fields to that record.
CardIds == 1..MaxIsoCards

\* An IsoCard instance as the calls of the component leave it: setupJOLT
\* completed on it (jolt), initializeScenePhysics completed on it
\* (initialized, what isPhysicsInitialized() answers), its physics loop is
\* running (startPhysics/stopPhysics).
NewCard == [jolt |-> FALSE, initialized |-> FALSE, running |-> FALSE]

SimpleInit ==
    [lifecycle |-> "constructed",  \* "constructed" | "mounted" | "unmounted"
     iso |-> 0,                    \* this.iso: 0 (null) or a card
     joltModule |-> FALSE,         \* this.joltModule is set
     cards |-> [k \in CardIds |-> NewCard],
     created |-> 0,                \* IsoCards constructed so far
     playing |-> FALSE,            \* state.playing
     ready |-> FALSE,              \* state.ready
     jsonText |-> "valid",         \* state.jsonText: "valid" | "invalid"
     log |-> <<>>,                 \* the newest LogWindow lines of state.log
     resizeListener |-> FALSE,     \* window holds handleResize
     toggles |-> <<>>,             \* the calls of togglePlay suspended at an
                                   \* await: the call awaited and its card
     calls |-> <<>>]               \* history: the calls on IsoCards the
                                   \* last step made, <<method, card>>

Simple_setState(s, f, v) ==
    IF s.lifecycle = "mounted" THEN [s EXCEPT ![f] = v] ELSE s

\* this.log(m): [...s.log, m]
Simple_log(s, m) ==
    Simple_setState(s, "log", LastN(Append(s.log, m), LogWindow))

\* The component calls a method of card k (0: of null, a TypeError).
Call(s, method, k) == [s EXCEPT !.calls = Append(@, <<method, k>>)]

stopPhysics(s, k) == [Call(s, "stopPhysics", k) EXCEPT !.cards[k].running = FALSE]

startPhysics(s, k) == [Call(s, "startPhysics", k) EXCEPT !.cards[k].running = TRUE]

\* joltInit, which setupJOLT reaches through deps: this.joltModule is
\* returned when set, and set when initJolt() resolves.
joltInit(s) ==
    IF s.joltModule THEN s ELSE Simple_log(s, "Initializing Jolt...")

joltInitResolves(s) ==
    IF s.joltModule THEN s
    ELSE Simple_log([s EXCEPT !.joltModule = TRUE], "Jolt initialized")

\* await this.iso.setupJOLT(): the call is made and togglePlay is suspended.
setupJOLT(s, k) ==
    [joltInit(Call(s, "setupJOLT", k)) EXCEPT
        !.toggles = Append(@, [at |-> "setupJOLT", on |-> k])]

\* await this.iso.initializeScenePhysics()
initializeScenePhysics(s, k) ==
    [Call(s, "initializeScenePhysics", k) EXCEPT
        !.toggles = Append(@, [at |-> "initializeScenePhysics", on |-> k])]

\* outcome: "ok" or "throws" (a call after stopPhysics and before
\* this.iso = null throws).
Simple_destroyIsoCard(s, outcome) ==
    IF s.iso = 0 THEN s
    ELSE LET s1 == stopPhysics(s, s.iso)
         IN  IF outcome = "throws"
             THEN Simple_log(s1, "IsoCard destroy failed")
             ELSE Simple_log([s1 EXCEPT !.iso = 0], "IsoCard destroyed")

\* createIsoCard throws: outcome "ctorThrows" (new IsoCard throws), or
\* interpretJSON throws on a text that is not JSON.
Simple_createThrows(s, outcome) ==
    /\ s.lifecycle = "mounted"
    /\ outcome = "ctorThrows" \/ s.jsonText = "invalid"

\* containerRef.current is set exactly while the component is mounted.
Simple_createIsoCard(s, outcome) ==
    IF s.lifecycle # "mounted" THEN Simple_log(s, "Container ref not found")
    ELSE IF outcome = "ctorThrows" THEN Simple_log(s, "IsoCard init error")
    ELSE LET k == s.created + 1
             s1 == [s EXCEPT !.iso = k, !.created = k]
         IN  IF s.jsonText = "invalid"
             THEN Simple_log(s1, "IsoCard init error")
             ELSE Simple_log(Call(Call(s1, "renderScene", k), "startAnimate", k),
                             "Animation started")

\* await this.createIsoCard() suspends nothing: createIsoCard awaits
\* nothing, and the continuation is a microtask of the same task.
Simple_componentDidMount(s, outcome) ==
    LET s0 == [s EXCEPT !.lifecycle = "mounted"]
        s1 == Simple_createIsoCard(s0, outcome)
    IN  IF Simple_createThrows(s0, outcome) \/ s1.iso = 0 THEN s1
        ELSE Simple_setState([s1 EXCEPT !.resizeListener = TRUE], "ready", TRUE)

\* window.removeEventListener("resize", () => {}) names a function that was
\* never added: no listener is removed.
Simple_componentWillUnmount(s, outcome) ==
    Simple_destroyIsoCard([s EXCEPT !.lifecycle = "unmounted"], outcome)

Simple_handleLoadScene(s, destroyed, created) ==
    Simple_createIsoCard(Simple_destroyIsoCard(s, destroyed), created)

\* togglePlay up to its first await, or to its end.
Simple_togglePlay(s) ==
    IF s.iso = 0 THEN s
    ELSE IF ~s.playing
         THEN IF ~s.cards[s.iso].initialized
              THEN setupJOLT(Simple_log(s, "Setting up JOLT physics..."), s.iso)
              ELSE Simple_setState(
                      Simple_log(startPhysics(s, s.iso), "Physics started"),
                      "playing", TRUE)
         ELSE Simple_setState(
                 Simple_log(stopPhysics(s, s.iso), "Physics stopped"),
                 "playing", FALSE)

RemoveAt(q, i) == SubSeq(q, 1, i - 1) \o SubSeq(q, i + 1, Len(q))

\* The i-th suspended togglePlay goes on, the promise it awaits "resolved"
\* or "rejected", up to its next await or to its end. this.iso is read
\* again after every await; a method of null is a TypeError, caught inside
\* the try and not after it.
Simple_togglePlayResumes(s, i, outcome) ==
    LET t == s.toggles[i]
        s0 == [s EXCEPT !.toggles = RemoveAt(@, i)]
    IN  IF outcome = "rejected" THEN Simple_log(s0, "Physics setup failed")
        ELSE IF t.at = "setupJOLT"
        THEN LET s1 == joltInitResolves([s0 EXCEPT !.cards[t.on].jolt = TRUE])
             IN  IF s1.iso = 0
                 THEN Simple_log(Call(s1, "initializeScenePhysics", 0),
                                 "Physics setup failed")
                 ELSE initializeScenePhysics(s1, s1.iso)
        ELSE LET s1 == Simple_log([s0 EXCEPT !.cards[t.on].initialized = TRUE],
                                  "Physics initialized")
             IN  IF s1.iso = 0 THEN Call(s1, "startPhysics", 0)
                 ELSE Simple_setState(
                         Simple_log(startPhysics(s1, s1.iso), "Physics started"),
                         "playing", TRUE)

\* handleResize, the listener componentDidMount adds.
Simple_handleResize(s) ==
    IF s.iso = 0 THEN Call(s, "onResize", 0)
    ELSE Call(Call(s, "onResize", s.iso), "renderScene", s.iso)

\* -------------------------------------------------------------- actions
\* The step of every handler but the animation frame's.
Step(d) == Commit(Collect([d EXCEPT !.frame = NoFrame]))

Init ==
    /\ lifecycle = "constructed"
    /\ iso = NONE
    /\ ready = FALSE
    /\ resizeListener = FALSE
    /\ socket = 0
    /\ sockets = [s \in SocketIds |-> "closed"]
    /\ wsStatus = "disconnected"
    /\ serverUrl = GoodUrl
    /\ jsonText = "valid"
    /\ sent = <<>>
    /\ log = <<>>
    /\ layerId = "server_layer"
    /\ objects = <<>>
    /\ objectIndex = <<>>
    /\ pending = <<>>
    /\ rafHandle = 0
    /\ rafQueue = {}
    /\ batchPos = <<>>
    /\ batchRot = <<>>
    /\ logCalls = 0
    /\ loaded = {}
    /\ frame = NoFrame
    /\ simple = SimpleInit

\* React mounts the component; outcomes are those of createIsoCard.
Mount(outcomes) ==
    /\ lifecycle = "constructed"
    /\ \E outcome \in outcomes : Step(componentDidMount(Me, outcome))

MountOutcomes == {"ok", "ctorThrows", "startThrows"}

Unmount ==
    /\ lifecycle = "mounted"
    /\ \E outcome \in {"ok", "throws"} :
          Step(componentWillUnmount(Me, outcome))

\* The Connect/Disconnect button (one button, labelled by wsStatus).
ClickConnect ==
    /\ lifecycle = "mounted"
    /\ wsStatus # "connected"
    /\ CanOpen(closeWebSocket(Me))
    /\ Step(openWebSocket(Me))

ClickDisconnect ==
    /\ lifecycle = "mounted"
    /\ wsStatus = "connected"
    /\ Step(closeWebSocket(Me))

\* The GET_SCENE, START_PHYSICS and STOP_PHYSICS buttons, disabled unless
\* wsStatus is "connected".
ClickSend ==
    /\ lifecycle = "mounted"
    /\ wsStatus = "connected"
    /\ \E type \in {"GET_SCENE", "START_PHYSICS", "STOP_PHYSICS"} :
          Step(send(Me, type, "click"))

ClickSendScene ==
    /\ lifecycle = "mounted"
    /\ wsStatus = "connected"
    /\ Step(handleSendScene(Me, "click"))

EditServerUrl ==
    /\ lifecycle = "mounted"
    /\ \E u \in {GoodUrl, BadUrl} :
          /\ u # serverUrl
          /\ Step(setState(Me, "serverUrl", u))

EditJsonText ==
    /\ lifecycle = "mounted"
    /\ \E t \in {"valid", "invalid"} :
          /\ t # jsonText
          /\ Step(setState(Me, "jsonText", t))

\* The connection of socket s is established.
WsOpen(s) ==
    /\ sockets[s] = "connecting"
    /\ Step(onopen([Me EXCEPT !.sockets[s] = "open"], s))

\* The connection of socket s is closed cleanly: the close event.
WsClose(s) ==
    /\ sockets[s] \in {"open", "closing"}
    /\ Step(onclose([Me EXCEPT !.sockets[s] = "closed"]))

\* The connection of socket s fails: the error event, then the close event
\* (one task of the event loop).
WsError(s) ==
    /\ sockets[s] \in {"connecting", "open", "closing"}
    /\ Step(onclose(onerror([Me EXCEPT !.sockets[s] = "closed"])))

\* A message arrives on the open socket s.
WsMessage(s, msgs) ==
    /\ sockets[s] = "open"
    /\ \E msg \in msgs : \E added \in LoadOutcomes(Me, msg) :
          Step(onMessage(Me, msg, added))

\* The browser runs the animation-frame callbacks requested so far.
AnimationFrame ==
    /\ rafQueue # {}
    /\ Commit(Collect(RunCallbacks([Me EXCEPT !.rafQueue = {}, !.frame = NoFrame],
                                   Cardinality(rafQueue))))

\* The user edits the layer id field.
EditLayerId(layers) ==
    /\ lifecycle = "mounted"
    /\ \E l \in layers :
          /\ l # layerId
          /\ Step(setState(Me, "layerId", l))

\* The k-th line CallLog logs.
Line(k) == <<"line", ToString(k)>>

\* log is a public member of the component: a caller logs one line after
\* the other, and here state.log is kept whole.
CallLog ==
    /\ lifecycle = "mounted"
    /\ logCalls < MaxLogCalls
    /\ Step([setState(Me, "log", LogAppend(log, Line(logCalls + 1)))
                EXCEPT !.logCalls = @ + 1])

\* send is a public member of the component: a caller invokes it in any
\* state of the mounted component.
CallSend ==
    /\ lifecycle = "mounted"
    /\ \E type \in ClientTypes : \E outcome \in {"ok", "throws"} :
          Step(trySend(Me, type, "call", outcome))

\* ------------------------------------------------------------- messages
Upd(id, name, position, pos) ==
    [Blank EXCEPT !.id = id, !.name = name, !.position = position, !.pos = pos]
Rot(id, name, rotation, rot, eulerDeg) ==
    [Blank EXCEPT !.id = id, !.name = name, !.rotation = rotation, !.rot = rot,
                  !.eulerDeg = eulerDeg]

ArrayOf(items) ==
    [kind |-> "array", items |-> [i \in DOMAIN items |-> [key |-> NONE, u |-> items[i]]]]
RecordOf(key, u) == [kind |-> "record", items |-> <<[key |-> key, u |-> u]>>]

Physics(type, objs) == [Msg(type) EXCEPT !.objects = objs]
Scene(sl) == [Msg("SCENE_STATE") EXCEPT !.hasSceneField = TRUE, !.scene = sl]

Ball == Config("ball", TRUE)
Cube == Config("cube", FALSE)

\* Messages that touch neither the scene nor the buffer.
MsgsPlain ==
    {[Msg(NONE) EXCEPT !.text = "empty"],
     [Msg(NONE) EXCEPT !.text = "invalid"],
     [Msg(NONE) EXCEPT !.text = "null"],
     Msg(NONE),
     Msg("ERROR"),
     [Msg("ERROR") EXCEPT !.message = "boom"],
     Msg("HELLO")}

\* Scenes in every shape ensureSceneArray accepts, with "physics" keys at
\* the top of an object and nested in it; the last is a SCENE_STATE without
\* a scene field.
MsgsScene ==
    {Scene(SceneArray(<<Ball>>)),
     Scene(SceneArray(<<Ball, ConfigDeep("cube")>>)),
     Scene(SceneObject(Cube, TRUE, <<ConfigDeep("ball"), Cube>>)),
     Scene(SceneObject(ConfigDeep("ball"), FALSE, <<>>)),
     Scene(SceneObject(Ball, FALSE, <<>>)),
     Msg("SCENE_STATE")}

\* One update by id and one by name under every physics type, and the
\* containers enqueuePhysics tells apart.
MsgsFew ==
    {Scene(SceneArray(<<Ball>>)),
     Msg("SCENE_STATE"),
     Physics("PHYSICS_UPDATE", ArrayOf(<<Upd("o1", NONE, "A", NONE)>>)),
     Physics("PHYSICS_TICK", ArrayOf(<<[Blank EXCEPT !.nil = TRUE],
                                       Upd(NONE, NONE, "A", NONE),
                                       Upd(NONE, "ball", NONE, "C")>>)),
     Physics("TRANSFORMS", RecordOf("ball", Upd(NONE, NONE, "A", NONE))),
     Physics("PHYSICS_UPDATE", [kind |-> "other", items |-> <<>>]),
     Msg("TRANSFORMS")}

\* Positions of the first object by id, in both forms, and orientations of
\* the same object by name, in every form.
UpdatesCoalesce ==
    {Upd("o1", NONE, "A", NONE), Upd("o1", NONE, "B", NONE),
     Upd("o1", NONE, NONE, "C"),
     Upd(NONE, "ball", "A", NONE),
     Rot(NONE, "ball", "q1", NONE, NONE), Rot(NONE, "ball", NONE, "q2", NONE),
     Rot(NONE, "ball", NONE, "r3", NONE), Rot(NONE, "ball", NONE, NONE, "deg90")}

MsgsCoalesce ==
    {Scene(SceneArray(<<Ball>>))}
    \cup {Physics("PHYSICS_UPDATE", ArrayOf(<<u>>)) : u \in UpdatesCoalesce}

\* Updates of the position of the objects named "ball", tagged with a layer
\* by the update, by the message, or not at all.
Tagged(layer) == [Upd(NONE, "ball", "A", NONE) EXCEPT !.layerId = layer]

MsgsLayer ==
    {Scene(SceneArray(<<Ball>>))}
    \cup {Physics("PHYSICS_UPDATE", ArrayOf(<<Tagged(l)>>)) :
            l \in {NONE, "", "server_layer"}}
    \cup {[Physics("PHYSICS_UPDATE", ArrayOf(<<Tagged(NONE)>>)) EXCEPT !.layerId = "other"],
          [Physics("PHYSICS_UPDATE", ArrayOf(<<Tagged(NONE)>>)) EXCEPT !.layer = "main"]}

\* The window is resized and holds the listener of ClientIsoCardWatcher.
WindowResize ==
    /\ resizeListener
    /\ Step(onResize(Me))

\* ---------------------------------------------- actions of Simple
\* A handler of Simple runs on the fields as they are, the history of the
\* calls of the step before forgotten.
Mine == [simple EXCEPT !.calls = <<>>]

SimpleStep(d) ==
    /\ simple' = d
    /\ UNCHANGED watcher

SimpleMount(outcomes) ==
    /\ simple.lifecycle = "constructed"
    /\ \E outcome \in outcomes : SimpleStep(Simple_componentDidMount(Mine, outcome))

SimpleUnmount ==
    /\ simple.lifecycle = "mounted"
    /\ \E outcome \in {"ok", "throws"} :
          SimpleStep(Simple_componentWillUnmount(Mine, outcome))

\* The Reload Scene button, disabled unless state.ready.
ClickReloadScene ==
    /\ simple.lifecycle = "mounted"
    /\ simple.ready
    /\ simple.created < MaxIsoCards
    /\ \E destroyed \in {"ok", "throws"} : \E created \in {"ok", "ctorThrows"} :
          SimpleStep(Simple_handleLoadScene(Mine, destroyed, created))

\* The Play/Stop button, disabled unless state.ready.
ClickPlay ==
    /\ simple.lifecycle = "mounted"
    /\ simple.ready
    /\ Len(Simple_togglePlay(Mine).toggles) <= MaxToggles
    /\ SimpleStep(Simple_togglePlay(Mine))

\* A promise a togglePlay awaits is settled.
TogglePlayResumes ==
    \E i \in DOMAIN simple.toggles : \E outcome \in {"resolved", "rejected"} :
        SimpleStep(Simple_togglePlayResumes(Mine, i, outcome))

\* The text box of the scene.
SimpleEditJsonText ==
    /\ simple.lifecycle = "mounted"
    /\ \E text \in {"valid", "invalid"} :
          /\ text # simple.jsonText
          /\ SimpleStep(Simple_setState(Mine, "jsonText", text))

\* The window is resized and holds the listener of Simple.
SimpleWindowResize ==
    /\ simple.resizeListener
    /\ SimpleStep(Simple_handleResize(Mine))

NextWS ==
    \/ Mount(MountOutcomes)
    \/ Unmount
    \/ ClickConnect
    \/ ClickDisconnect
    \/ ClickSend
    \/ ClickSendScene
    \/ EditServerUrl
    \/ EditJsonText
    \/ \E s \in SocketIds : WsOpen(s)
    \/ \E s \in SocketIds : WsClose(s)
    \/ \E s \in SocketIds : WsError(s)
    \/ \E s \in SocketIds : WsMessage(s, MsgsPlain)

SpecWS == Init /\ [][NextWS]_vars

\* The component loading scenes of every shape, the user editing the layer
\* id.
NextScene ==
    \/ Mount({"ok"})
    \/ \E s \in SocketIds : WsOpen(s)
    \/ \E s \in SocketIds : WsMessage(s, MsgsScene)
    \/ EditLayerId({"server_layer", ""})

SpecScene == Init /\ [][NextScene]_vars

\* The mounted component logging line after line.
NextLog ==
    \/ Mount({"ok"})
    \/ CallLog

SpecLog == Init /\ [][NextLog]_vars

\* The connection driven by the user, send called in every state.
NextSend ==
    \/ Mount({"ok"})
    \/ Unmount
    \/ ClickConnect
    \/ ClickDisconnect
    \/ EditServerUrl
    \/ \E s \in SocketIds : WsOpen(s)
    \/ \E s \in SocketIds : WsClose(s)
    \/ \E s \in SocketIds : WsError(s)
    \/ CallSend

SpecSend == Init /\ [][NextSend]_vars

\* The component receiving every kind of message, frames running.
Next ==
    \/ Mount({"ok", "ctorThrows"})
    \/ Unmount
    \/ \E s \in SocketIds : WsOpen(s)
    \/ \E s \in SocketIds : WsMessage(s, MsgsPlain \cup MsgsFew)
    \/ AnimationFrame

Spec == Init /\ [][Next]_vars

\* The component mirroring the transforms of one object.
NextCoalesce ==
    \/ Mount({"ok"})
    \/ \E s \in SocketIds : WsOpen(s)
    \/ \E s \in SocketIds : WsMessage(s, MsgsCoalesce)
    \/ AnimationFrame

SpecCoalesce == Init /\ [][NextCoalesce]_vars

\* The component under updates that carry layer tags, the user editing the
\* layer id.
NextLayer ==
    \/ Mount({"ok"})
    \/ \E s \in SocketIds : WsOpen(s)
    \/ \E s \in SocketIds : WsMessage(s, MsgsLayer)
    \/ EditLayerId({"server_layer", ""})
    \/ AnimationFrame

SpecLayer == Init /\ [][NextLayer]_vars

\* The step AnimationFrame, told from every other step by what it does to the
\* callback queue: it empties a non-empty queue and leaves the lifecycle alone
\* (componentWillUnmount, the only other code that empties it, changes the
\* lifecycle). It is enabled exactly when a callback is outstanding.
FrameFires ==
    /\ rafQueue # {}
    /\ rafQueue' = {}
    /\ lifecycle' = lifecycle

\* FrameFires and AnimationFrame are the same steps of the program.
FrameFiresIsAnimationFrame == [][FrameFires <=> AnimationFrame]_vars

\* The browser runs a requested animation-frame callback eventually.
SpecFair == Spec /\ WF_rafQueue(FrameFires)

\* The Simple component alone.
NextSimple ==
    \/ SimpleMount({"ok", "ctorThrows"})
    \/ SimpleUnmount
    \/ ClickReloadScene
    \/ ClickPlay
    \/ TogglePlayResumes
    \/ SimpleEditJsonText
    \/ SimpleWindowResize

SpecSimple == Init /\ [][NextSimple]_vars

\* Both components in one window, mounted, resized and unmounted.
NextUnmount ==
    \/ Mount(MountOutcomes)
    \/ Unmount
    \/ WindowResize
    \/ SimpleMount({"ok", "ctorThrows"})
    \/ SimpleUnmount
    \/ ClickReloadScene
    \/ SimpleWindowResize

SpecUnmount == Init /\ [][NextUnmount]_vars

\* ================================================================ claims
\* The variables of the program (the history variables left out).
progVars ==
    <<lifecycle, iso, ready, resizeListener, socket, sockets, wsStatus,
      serverUrl, jsonText, sent, log, layerId, objects, objectIndex, pending,
      rafHandle, rafQueue>>

\* C1: at most one animation-frame callback is outstanding at any time, and
\* flushPending runs at most once per animation frame.
C1_OneFlushPerFrame ==
    /\ Cardinality(rafQueue) <= 1
    /\ frame.flushes <= 1

\* Two updates are buffered behind one requested frame.
C1_Witness == Len(pending) >= 2 /\ Cardinality(rafQueue) = 1

\* C2: within one run of flushPending, applyOneUpdateTo is invoked at most
\* once for any scene object, whatever keys addressed it.
C2_OncePerObject ==
    \A i, j \in DOMAIN frame.applied :
        i # j => frame.applied[i].obj # frame.applied[j].obj

\* The entries of the history h whose key resolves to the object ref.
AddressedTo(h, ref) ==
    SelectSeq(h, LAMBDA e : resolveObject(Me, e.key)[2] = ref)

\* C3: after flushPending runs, every object addressed since the previous
\* flush has the position given by the update received last among those
\* that carried a position for it, and likewise the orientation.
C3_LastMessageWins ==
    \A i \in DOMAIN objects :
        LET hp == AddressedTo(frame.batchPos, objects[i].ref)
            hr == AddressedTo(frame.batchRot, objects[i].ref)
        IN  /\ hp # <<>> => objects[i].position = hp[Len(hp)].val
            /\ hr # <<>> => objects[i].quaternion = hr[Len(hr)].val

\* The layer an applied update requires: its own layerId (the message's,
\* failing that), else the configured layerId.
Required(a) == Coalesce(a.u.layerId, layerId)
AppliedLayer(a) == ObjLayer(Entry(Me, a.obj))

\* C4 as claimed: every update flushPending applies goes to an object whose
\* layer equals the layer required for it, whatever the configured layerId.
C4_NoCrossLayer ==
    \A i \in DOMAIN frame.applied :
        AppliedLayer(frame.applied[i]) = Required(frame.applied[i])

\* C4 as amended: every update flushPending applies whose required layer is
\* a non-empty string goes to an object of that layer.
C4_NoCrossLayerWhenTagged ==
    \A i \in DOMAIN frame.applied :
        Truthy(Required(frame.applied[i]))
            => AppliedLayer(frame.applied[i]) = Required(frame.applied[i])

\* An update tagged by its message's layer field was applied to an object
\* loaded under the empty layer id.
C4_Witness ==
    \E i \in DOMAIN frame.applied :
        /\ frame.applied[i].u.layerId = "main"
        /\ AppliedLayer(frame.applied[i]) = "main"

\* C5: while the component is mounted and has an IsoCard instance, a
\* non-empty buffer leads to an empty one (animation frames being fair).
C5_BufferedIsFlushed ==
    (lifecycle = "mounted" /\ iso # NONE /\ pending # <<>>)
        ~> (pending = <<>> \/ lifecycle # "mounted")

\* A frame has just flushed the buffer, applying an update.
C5_Witness ==
    /\ lifecycle = "mounted"
    /\ frame.flushes = 1
    /\ Len(frame.applied) >= 1
    /\ pending = <<>>

\* C6: every frame transmitted has one of the four client types and is sent
\* by a button click.
C6_OnlyClicksSend ==
    sent # <<>> =>
        /\ sent[1] \in {"START", "GET_SCENE", "START_PHYSICS", "STOP_PHYSICS"}
        /\ sent[2] = "click"

C6_Witness == sent = <<"START", "click">>

\* What onMessage may change, by the kind of message.
DispatchEffect(msg) ==
    IF msg.text = "empty" \/ (msg.text = "json" /\ ~Truthy(msg.type))
    THEN UNCHANGED progVars
    ELSE IF msg.text # "json" THEN TRUE
    ELSE IF msg.type = "SCENE_STATE"
    THEN UNCHANGED <<pending, rafHandle, rafQueue>>
    ELSE IF msg.type \in PhysicsTypes
    THEN /\ UNCHANGED <<objects, objectIndex>>
         /\ PendingKeys(pending) \subseteq PendingKeys(pending')
         /\ rafQueue \subseteq rafQueue'
    ELSE UNCHANGED <<objects, objectIndex, pending, rafHandle, rafQueue>>

MsgsAll == MsgsPlain \cup MsgsFew

\* C7: onMessage dispatches by type: SCENE_STATE leaves the buffer alone,
\* the physics types only add to the buffer and move no object, any other
\* type leaves scene, index and buffer alone, and an empty or untyped
\* message changes nothing, the log included.
C7_DispatchByType ==
    [][(\E s \in SocketIds : sockets[s] = "open") =>
          \A msg \in MsgsAll : \A added \in LoadOutcomes(Me, msg) :
              DispatchEffect(msg) \/ ~Step(onMessage(Me, msg, added))]_vars

\* A scene was loaded while updates were buffered.
C7_Witness ==
    /\ pending # <<>>
    /\ log = <<<<"Scene loaded", "1">>>>

\* C8: a message that cannot be parsed is appended to the log of the
\* mounted component and changes nothing else.
C8_ParseFailureLogged ==
    [][\A msg \in {m \in MsgsAll : m.text \in {"invalid", "null"}} :
          (/\ lifecycle = "mounted"
           /\ \E s \in SocketIds : sockets[s] = "open"
           /\ Step(onMessage(Me, msg, 0)))
              => /\ log' = LastN(Append(log, <<"Message parse failed", msg.text>>),
                                 LogWindow)
                 /\ UNCHANGED <<lifecycle, iso, ready, resizeListener, socket,
                                sockets, wsStatus, serverUrl, jsonText, sent,
                                layerId, objects, objectIndex, pending,
                                rafHandle, rafQueue>>]_vars

\* A parse failure was logged while updates were buffered and a frame
\* requested.
C8_Witness ==
    /\ log = <<<<"Message parse failed", "invalid">>>>
    /\ pending # <<>>
    /\ rafQueue # {}

\* C9: wsStatus is "connected" exactly when the component holds an open
\* socket, and "connecting" while a connection attempt is in progress.
C9_StatusTellsTruth ==
    lifecycle = "mounted" =>
        /\ wsStatus = "connected" <=> (socket # 0 /\ sockets[socket] = "open")
        /\ (wsStatus # "connected" /\ \E s \in SocketIds : sockets[s] = "connecting")
              => wsStatus = "connecting"

\* C10: at most one WebSocket of the component is connecting or open.
C10_OneConnection ==
    Cardinality({s \in SocketIds : sockets[s] \in {"connecting", "open"}}) <= 1

\* What a call of send may change, by the state it is called in.
SendEffect(type, outcome) ==
    IF socket = 0 \/ wsStatus # "connected"
    THEN /\ log' = LastN(Append(log, <<"Not connected. Can't send.", "">>), LogWindow)
         /\ UNCHANGED <<lifecycle, iso, ready, resizeListener, socket, sockets,
                        wsStatus, serverUrl, jsonText, sent, layerId, objects,
                        objectIndex, pending, rafHandle, rafQueue>>
    ELSE IF outcome = "throws"
    THEN /\ log' = LastN(Append(log, <<"Send failed", type>>), LogWindow)
         /\ UNCHANGED <<socket, sockets, wsStatus, sent>>
    ELSE UNCHANGED <<socket, sockets, wsStatus>>

\* C11: send transmits only when the component holds a socket and wsStatus
\* is "connected"; otherwise it logs "Not connected. Can't send." and changes
\* nothing else; a send that throws is logged and leaves the connection
\* status as it is.
C11_SendGuarded ==
    [][/\ sent' # sent => (socket # 0 /\ wsStatus = "connected")
       /\ lifecycle = "mounted" =>
             \A type \in ClientTypes : \A outcome \in {"ok", "throws"} :
                 SendEffect(type, outcome)
                     \/ ~Step(trySend(Me, type, "call", outcome))]_vars

\* send was refused while a socket of the component is open.
C11_Witness ==
    /\ log = <<<<"Not connected. Can't send.", "">>>>
    /\ \E s \in SocketIds : sockets[s] = "open"

\* C12: the objects in the scene are exactly those the most recent
\* SCENE_STATE handled to its end added: none of an earlier load remains.
C12_OnlyLatestScene == iso # NONE => LiveRefs(Me) = loaded

\* C13: in every state of the mounted component, a non-empty buffer has a
\* flush scheduled (rafHandle is not null).
C13_BufferedIsScheduled ==
    (lifecycle = "mounted" /\ pending # <<>>) => rafHandle # 0

\* C14: a frame that runs flushPending with an IsoCard present empties the
\* buffer, whatever became of each update, and applies only updates that
\* were in the buffer.
C14_FlushedOnce ==
    [][(frame'.flushes > 0 /\ iso # NONE) =>
          /\ pending' = <<>>
          /\ \A i \in DOMAIN frame'.applied :
                frame'.applied[i].key \in PendingKeys(pending)]_vars

\* A frame emptied a buffer none of whose updates it applied.
C14_Witness ==
    /\ iso # NONE
    /\ frame.flushes = 1
    /\ frame.batchPos # <<>>
    /\ frame.applied = <<>>
    /\ pending = <<>>

\* C15: in the mounted component every object in objectIndex is in the
\* scene, and no frame applies a transform to an object removed from it.
C15_IndexIsLive ==
    lifecycle = "mounted" =>
        /\ Range(objectIndex) \subseteq LiveRefs(Me)
        /\ \A i \in DOMAIN frame.applied : frame.applied[i].obj \in LiveRefs(Me)

\* C16: the log never holds more than 400 lines, and it ends with the most
\* recent min(n, 400) of the n lines logged, in the order they were logged.
C16_LogBounded ==
    LET k == IF logCalls < LogKeep THEN logCalls ELSE LogKeep
    IN  /\ Len(log) <= LogKeep
        /\ Len(log) >= k
        /\ \A i \in 1..k : log[Len(log) - k + i] = Line(logCalls - k + i)

\* More than 400 lines were logged and the log holds 400.
C16_Witness == logCalls > LogKeep /\ Len(log) = LogKeep

\* The entries a step adds to the scene.
Added ==
    {i \in DOMAIN objects' : objects'[i].live /\ objects'[i].ref \notin LiveRefs(Me)}

\* C17: every object handleSceneState hands to the renderer has the
\* configured layerId as its layer and no "physics" key at any depth, and
\* a scene handled to its end adds as many objects as the normalised scene
\* array has entries.
C17_PayloadNormalised ==
    [][/\ \A i \in Added : /\ objects'[i].layer = layerId
                            /\ ~objects'[i].physics
                            /\ ~objects'[i].inner
       /\ (\E s \in SocketIds : sockets[s] = "open") =>
             \A msg \in {m \in MsgsScene : LoadSize(m) \in LoadOutcomes(Me, m)} :
                 Cardinality(Added) = LoadSize(msg)
                     \/ ~Step(onMessage(Me, msg, LoadSize(msg)))]_vars

\* A scene of two objects was loaded under the layer id the user emptied.
C17_Witness ==
    /\ layerId = ""
    /\ log = <<<<"Scene loaded", "2">>>>
    /\ Cardinality({i \in DOMAIN objects : objects[i].live /\ objects[i].layer = ""}) = 2

\* C18: in the Simple component, state.playing is true exactly when physics
\* is running on the current IsoCard instance, whatever Play, Stop and
\* Reload Scene clicks came before: the button never shows "Stop" while the
\* physics of the current instance is stopped.
C18_PlayingIsRunning ==
    simple.lifecycle = "mounted" =>
        (simple.playing <=>
            (simple.iso # 0 /\ simple.cards[simple.iso].running))

\* The physics setup of card k, setupJOLT followed by initializeScenePhysics,
\* has completed, or a togglePlay is in the middle of it.
SetupCompleted(s, k) == s.cards[k].jolt /\ s.cards[k].initialized
SetupRunning(s, k) == \E j \in DOMAIN s.toggles : s.toggles[j].on = k

\* C19: in the Simple component, the physics setup runs at most once per
\* IsoCard instance (setupJOLT is not called on an instance whose setup is
\* running or has completed), and startPhysics is only called on an
\* instance whose setup completed, also when Play or Reload Scene is clicked
\* while a togglePlay is awaiting the setup.
C19_SetupOncePerCard ==
    [][\A i \in DOMAIN simple'.calls :
          LET method == simple'.calls[i][1]
              k == simple'.calls[i][2]
          IN  /\ method = "setupJOLT" =>
                    ~SetupRunning(simple, k) /\ ~SetupCompleted(simple, k)
              /\ (method = "startPhysics" /\ k # 0) =>
                    SetupCompleted(simple', k)]_vars

\* C20: after componentWillUnmount of either component, the resize listener
\* the component registered on mount is no longer registered, and no resize
\* event runs a handler of the unmounted component.
C20_NoListenerAfterUnmount ==
    /\ lifecycle = "unmounted" => ~resizeListener
    /\ simple.lifecycle = "unmounted" =>
          /\ ~simple.resizeListener
          /\ \A i \in DOMAIN simple.calls : simple.calls[i][1] # "onResize"

====
